---- MODULE Spec2Model ----
(***************************************************************************)
(* A model of app.py: the /process upload handler (validate, store, probe, *)
(* build the ffmpeg command, transcode, redirect) and the /downloads       *)
(* handler.                                                                *)
(*                                                                         *)
(* Strings are sequences of tokens.  A token is a piece of text that the   *)
(* code never looks inside: a name piece ("x"), the dot ".", the path      *)
(* separator "/", an extension ("mkv", "WAV"), the 12 hex digits of a      *)
(* uid.  A filename such as x.WAV is <<"x", ".", "WAV">>, the parent       *)
(* directory component ".." is <<".", ".">>.  A command line is a sequence *)
(* of arguments, each argument a sequence of tokens.                       *)
(***************************************************************************)
EXTENDS Integers, Sequences, FiniteSets, TLC

\* ------------------------------------------------------------- bounds
MaxLen == 5        \* longest client filename, in tokens
NumUids == 2       \* how many values uuid4().hex[:12] can take
NumReqs == 2       \* concurrent /process requests (SpecConc)
MaxExtra == 1      \* longest ffmpeg diagnostic is DiagLimit + MaxExtra

\* ---------------------------------------------------- program constants
UPLOAD_FOLDER == <<"uploads">>
OUTPUT_FOLDER == <<"outputs">>
ALLOWED_EXT ==
    {<<"mp4">>, <<"mov">>, <<"mkv">>, <<"webm">>, <<"mp3">>, <<"wav">>,
     <<"aac">>, <<"m4a">>, <<"flac">>}
AUDIO_EXT == {<<"mp3">>, <<"wav">>, <<"aac">>, <<"m4a">>, <<"flac">>}
DiagLimit == 1000
TAGS == <<"TITLE", "ARTIST", "ALBUM", "GENRE", "YEAR", "COMMENT", "COPYRIGHT">>
FILTER_COMPLEX == <<"[0:v]scale,crop=9/16,scale=720:1280,split,drawtext,overlay">>

\* ------------------------------------------------------------- inputs
Alphabet == {"x", ".", "/", "mkv", "WAV"}
Strings(n) == UNION {[1..k -> Alphabet] : k \in 0..n}
Uids == {ToString(i) : i \in 1..NumUids}
Values == {"", "Test"}
Reqs == 1..NumReqs

\* request.files.get("input_file"): the part may be absent
Uploads(names) ==
    {[present |-> FALSE, filename |-> <<>>]}
        \cup {[present |-> TRUE, filename |-> f] : f \in names}

\* request.form: the two checkboxes and the seven text fields, in TAGS order
Forms(metas) ==
    [overlay_enable : BOOLEAN, metadata_enable : BOOLEAN, meta : metas]
BlankForm ==
    [overlay_enable |-> FALSE, metadata_enable |-> FALSE, meta |-> [i \in 1..7 |-> ""]]

AllMetas == [1..7 -> Values]
FewMetas ==
    {[i \in 1..7 |-> ""],
     [i \in 1..7 |-> IF i \in {1, 7} THEN "Test" ELSE ""]}
PlainNames == {<<"x", ".", "mkv">>, <<"x", ".", "WAV">>}
OneName == {<<"x", ".", "mkv">>}

\* what the external tools can do
ProbeExits == {"exit0", "nonzero", "oserror"}
ProbeOutputs == {<<>>, <<"video">>, <<"VIDEO">>, <<"audio">>}
RunExits == {"exit0", "nonzero", "oserror"}
SaveExits == {"ok", "oserror"}
DiagLens == {DiagLimit - 1, DiagLimit + MaxExtra}

\* ------------------------------------------------------ string helpers
\* str.lower(), token by token
lower(s) ==
    [i \in 1..Len(s) |->
        CASE s[i] = "WAV" -> "wav"
          [] s[i] = "VIDEO" -> "video"
          [] OTHER -> s[i]]

\* index of the last occurrence of token t in s, 0 when there is none
LastIdx(s, t) ==
    LET I == {i \in 1..Len(s) : s[i] = t}
    IN  IF I = {} THEN 0 ELSE CHOOSE i \in I : \A j \in I : j <= i

\* s.rsplit(".", 1)
rsplit(s) ==
    IF LastIdx(s, ".") = 0
    THEN <<s>>
    ELSE <<SubSeq(s, 1, LastIdx(s, ".") - 1),
           SubSeq(s, LastIdx(s, ".") + 1, Len(s))>>

\* os.path.join(a, b) for a relative directory a
os_path_join(a, b) ==
    IF b # <<>> /\ b[1] = "/" THEN b ELSE a \o <<"/">> \o b

\* os.path.basename(p)
basename(p) == SubSeq(p, LastIdx(p, "/") + 1, Len(p))

\* os.path.dirname(p)
dirname(p) == SubSeq(p, 1, LastIdx(p, "/") - 1)

\* the path components of p
RECURSIVE Components(_)
Components(p) ==
    IF LastIdx(p, "/") = 0
    THEN <<p>>
    ELSE Append(Components(dirname(p)), basename(p))

\* ------------------------------------------------------- pure functions
\* the dot test forgotten: the suffix is whatever rsplit returns last
allowed_filename_nodot(fn) ==
    lower(rsplit(fn)[Len(rsplit(fn))]) \in ALLOWED_EXT

allowed_filename(fn) ==
    /\ LastIdx(fn, ".") # 0
    /\ lower(rsplit(fn)[2]) \in ALLOWED_EXT

\* has_video_stream: the value returned, or the exception that escapes
has_video_stream(exit, out) ==
    CASE exit = "exit0" ->
            [raised |-> FALSE, value |-> \E i \in 1..Len(out) : lower(out)[i] = "video"]
      [] exit = "nonzero" -> [raised |-> FALSE, value |-> FALSE]
      [] OTHER -> [raised |-> TRUE, value |-> FALSE]

\* the uid prefix forgotten
InName_nouid(uid, filename) == <<"_">> \o filename

InName(uid, filename) == <<uid, "_">> \o filename

\* the extension compared without .lower()
OutFilename_nolower(in_name, filename, video_present) ==
    LET out_filename_safe == rsplit(in_name)[1] \o <<"_processed">>
        ext == rsplit(filename)[2]
    IN  IF video_present
        THEN out_filename_safe \o <<".", "mp4">>
        ELSE IF ext \in AUDIO_EXT
             THEN out_filename_safe \o <<".">> \o ext
             ELSE out_filename_safe \o <<".", "mp3">>

OutFilename(in_name, filename, video_present) ==
    LET out_filename_safe == rsplit(in_name)[1] \o <<"_processed">>
        ext == lower(rsplit(filename)[2])
    IN  IF video_present
        THEN out_filename_safe \o <<".", "mp4">>
        ELSE IF ext \in AUDIO_EXT
             THEN out_filename_safe \o <<".">> \o ext
             ELSE out_filename_safe \o <<".", "mp3">>

\* the overlay attached on overlay_enable alone
BranchArgs_anyinput(video_present, overlay_enable) ==
    IF overlay_enable
    THEN <<<<"-filter_complex">>, FILTER_COMPLEX, <<"-map">>, <<"0:v">>,
           <<"-map">>, <<"0:a?">>,
           <<"-c:v">>, <<"libx264">>, <<"-preset">>, <<"ultrafast">>,
           <<"-c:a">>, <<"copy">>>>
    ELSE IF video_present
         THEN <<<<"-c:v">>, <<"libx264">>, <<"-preset">>, <<"ultrafast">>,
                <<"-c:a">>, <<"copy">>>>
         ELSE <<<<"-c:a">>, <<"copy">>>>

BranchArgs(video_present, overlay_enable) ==
    IF video_present /\ overlay_enable
    THEN <<<<"-filter_complex">>, FILTER_COMPLEX, <<"-map">>, <<"0:v">>,
           <<"-map">>, <<"0:a?">>,
           <<"-c:v">>, <<"libx264">>, <<"-preset">>, <<"ultrafast">>,
           <<"-c:a">>, <<"copy">>>>
    ELSE IF video_present
         THEN <<<<"-c:v">>, <<"libx264">>, <<"-preset">>, <<"ultrafast">>,
                <<"-c:a">>, <<"copy">>>>
         ELSE <<<<"-c:a">>, <<"copy">>>>

\* the loop over meta_map.items(), from tag i on
RECURSIVE MetaLoop(_, _)
MetaLoop(meta, i) ==
    IF i > Len(TAGS)
    THEN <<>>
    ELSE (IF meta[i] # ""
          THEN <<<<"-metadata">>, <<TAGS[i], "=", meta[i]>>>>
          ELSE <<>>) \o MetaLoop(meta, i + 1)

\* the metadata_enable test forgotten
MetadataArgs_always(metadata_enable, meta) == MetaLoop(meta, 1)

MetadataArgs(metadata_enable, meta) ==
    IF metadata_enable THEN MetaLoop(meta, 1) ELSE <<>>

\* the output path appended before the metadata
FfmpegCmd_outearly(in_path, out_path, video_present, form) ==
    <<<<"ffmpeg">>, <<"-y">>, <<"-i">>, in_path>>
        \o BranchArgs(video_present, form.overlay_enable)
        \o <<out_path>>
        \o MetadataArgs(form.metadata_enable, form.meta)

FfmpegCmd(in_path, out_path, video_present, form) ==
    <<<<"ffmpeg">>, <<"-y">>, <<"-i">>, in_path>>
        \o BranchArgs(video_present, form.overlay_enable)
        \o MetadataArgs(form.metadata_enable, form.meta)
        \o <<out_path>>

\* error_output[:1000], on the length of the text
\* the slice forgotten
Truncate_whole(n) == n

Truncate(n) == IF n <= DiagLimit THEN n ELSE DiagLimit

\* the filename handed to url_for("download_file", ...)
\* the whole output path handed to url_for
RedirectName_path(out_path) == out_path

RedirectName(out_path) == basename(out_path)

\* ---------------------------------------------------------------- state
VARIABLES
    pc,            \* pc[r]: where request r is in process()
    uploaded,      \* request.files.get("input_file")
    form,          \* request.form
    uid, in_name, in_path,
    video_present, out_filename, out_path, ffmpeg_cmd,
    flashed,       \* the flashed message: its text and the length of the embedded diagnostic
    redirect,      \* the response: endpoint and filename
    calls,         \* how often the request saved, probed and transcoded
    env,           \* what the external tools did for the request
    uploads_dir,   \* files in UPLOAD_FOLDER: path -> request that wrote it
    outputs_dir,   \* files in OUTPUT_FOLDER: path -> request whose transcode wrote it
    served         \* the answer to GET /downloads/<redirect filename>

vars == <<pc, uploaded, form, uid, in_name, in_path, video_present, out_filename,
          out_path, ffmpeg_cmd, flashed, redirect, calls, env, uploads_dir,
          outputs_dir, served>>

\* the directories that exist: os.makedirs at import, nothing creates another
dirs == {UPLOAD_FOLDER, OUTPUT_FOLDER}

NoFlash == [text |-> "", diag |-> 0]
NoRedirect == [endpoint |-> "", filename |-> <<>>]
NoServed == [status |-> 0, owner |-> 0]
EmptyDir == [p \in {} |-> 0]

Init ==
    /\ pc = [r \in Reqs |-> "ReceivingUpload"]
    /\ uploaded = [r \in Reqs |-> [present |-> FALSE, filename |-> <<>>]]
    /\ form = [r \in Reqs |-> BlankForm]
    /\ uid = [r \in Reqs |-> ""]
    /\ in_name = [r \in Reqs |-> <<>>]
    /\ in_path = [r \in Reqs |-> <<>>]
    /\ video_present = [r \in Reqs |-> FALSE]
    /\ out_filename = [r \in Reqs |-> <<>>]
    /\ out_path = [r \in Reqs |-> <<>>]
    /\ ffmpeg_cmd = [r \in Reqs |-> <<>>]
    /\ flashed = [r \in Reqs |-> NoFlash]
    /\ redirect = [r \in Reqs |-> NoRedirect]
    /\ calls = [r \in Reqs |-> [save |-> 0, ffprobe |-> 0, ffmpeg |-> 0]]
    /\ env = [r \in Reqs |-> [probe |-> "", run |-> "", diag |-> 0]]
    /\ uploads_dir = EmptyDir
    /\ outputs_dir = EmptyDir
    /\ served = [r \in Reqs |-> NoServed]

\* -------------------------------------------------------------- actions
\* process(), lines 40-57: read the form and the file part, validate
Receive(r, names, forms) ==
    /\ pc[r] = "ReceivingUpload"
    /\ \E u \in Uploads(names), f \in forms :
        /\ uploaded' = [uploaded EXCEPT ![r] = u]
        /\ form' = [form EXCEPT ![r] = f]
        /\ IF ~u.present \/ u.filename = <<>>
           THEN /\ flashed' = [flashed EXCEPT ![r] = [text |-> "Please upload a file.", diag |-> 0]]
                /\ redirect' = [redirect EXCEPT ![r] = [endpoint |-> "index", filename |-> <<>>]]
                /\ pc' = [pc EXCEPT ![r] = "Rejected"]
           ELSE IF ~allowed_filename(u.filename)
           THEN /\ flashed' = [flashed EXCEPT ![r] = [text |-> "File type not allowed.", diag |-> 0]]
                /\ redirect' = [redirect EXCEPT ![r] = [endpoint |-> "index", filename |-> <<>>]]
                /\ pc' = [pc EXCEPT ![r] = "Rejected"]
           ELSE /\ pc' = [pc EXCEPT ![r] = "Storing"]
                /\ UNCHANGED <<flashed, redirect>>
    /\ UNCHANGED <<uid, in_name, in_path, video_present, out_filename, out_path,
                   ffmpeg_cmd, calls, env, uploads_dir, outputs_dir, served>>

\* process(), lines 60-63: name the upload and save it
Store(r) ==
    /\ pc[r] = "Storing"
    /\ \E u \in Uids, e \in SaveExits :
        LET name == InName(u, uploaded[r].filename)
            path == os_path_join(UPLOAD_FOLDER, name)
        IN  /\ uid' = [uid EXCEPT ![r] = u]
            /\ in_name' = [in_name EXCEPT ![r] = name]
            /\ in_path' = [in_path EXCEPT ![r] = path]
            /\ calls' = [calls EXCEPT ![r].save = @ + 1]
            /\ IF e = "ok" /\ dirname(path) \in dirs
               THEN /\ uploads_dir' = (path :> r) @@ uploads_dir
                    /\ pc' = [pc EXCEPT ![r] = "Probing"]
               ELSE /\ pc' = [pc EXCEPT ![r] = "ServerError"]
                    /\ UNCHANGED uploads_dir
    /\ UNCHANGED <<uploaded, form, video_present, out_filename, out_path,
                   ffmpeg_cmd, flashed, redirect, env, outputs_dir, served>>

\* process(), line 66: has_video_stream(in_path)
Probe(r) ==
    /\ pc[r] = "Probing"
    /\ \E e \in ProbeExits, o \in ProbeOutputs :
        LET res == has_video_stream(e, o)
        IN  /\ env' = [env EXCEPT ![r].probe = e]
            /\ calls' = [calls EXCEPT ![r].ffprobe = @ + 1]
            /\ IF res.raised
               THEN /\ pc' = [pc EXCEPT ![r] = "ServerError"]
                    /\ UNCHANGED video_present
               ELSE /\ pc' = [pc EXCEPT ![r] = "BuildingCommand"]
                    /\ video_present' = [video_present EXCEPT ![r] = res.value]
    /\ UNCHANGED <<uploaded, form, uid, in_name, in_path, out_filename, out_path,
                   ffmpeg_cmd, flashed, redirect, uploads_dir, outputs_dir, served>>

\* process(), lines 68-126: output name and command
Build(r) ==
    /\ pc[r] = "BuildingCommand"
    /\ LET name == OutFilename(in_name[r], uploaded[r].filename, video_present[r])
           path == os_path_join(OUTPUT_FOLDER, name)
       IN  /\ out_filename' = [out_filename EXCEPT ![r] = name]
           /\ out_path' = [out_path EXCEPT ![r] = path]
           /\ ffmpeg_cmd' = [ffmpeg_cmd EXCEPT ![r] =
                                FfmpegCmd(in_path[r], path, video_present[r], form[r])]
    /\ pc' = [pc EXCEPT ![r] = "Transcoding"]
    /\ UNCHANGED <<uploaded, form, uid, in_name, in_path, video_present, flashed,
                   redirect, calls, env, uploads_dir, outputs_dir, served>>

\* process(), lines 128-138: run ffmpeg, then redirect
Transcode(r) ==
    /\ pc[r] = "Transcoding"
    /\ calls' = [calls EXCEPT ![r].ffmpeg = @ + 1]
    /\ \E e \in RunExits :
        LET target == ffmpeg_cmd[r][Len(ffmpeg_cmd[r])]
        IN  \/ /\ e = "exit0"
               /\ dirname(target) \in dirs
               /\ env' = [env EXCEPT ![r].run = e]
               /\ outputs_dir' = (target :> r) @@ outputs_dir
               /\ redirect' = [redirect EXCEPT ![r] =
                                [endpoint |-> "download_file",
                                 filename |-> RedirectName(out_path[r])]]
               /\ pc' = [pc EXCEPT ![r] = "Succeeded"]
               /\ UNCHANGED flashed
            \/ /\ e = "nonzero"
               /\ \E n \in DiagLens :
                    /\ env' = [env EXCEPT ![r].run = e, ![r].diag = n]
                    /\ flashed' = [flashed EXCEPT ![r] =
                                    [text |-> "FFmpeg failed", diag |-> Truncate(n)]]
               /\ redirect' = [redirect EXCEPT ![r] = [endpoint |-> "index", filename |-> <<>>]]
               /\ pc' = [pc EXCEPT ![r] = "Failed"]
               /\ UNCHANGED outputs_dir
            \/ /\ e = "oserror"
               /\ env' = [env EXCEPT ![r].run = e]
               /\ pc' = [pc EXCEPT ![r] = "ServerError"]
               /\ UNCHANGED <<flashed, redirect, outputs_dir>>
    /\ UNCHANGED <<uploaded, form, uid, in_name, in_path, video_present,
                   out_filename, out_path, ffmpeg_cmd, uploads_dir, served>>

\* download_file(filename), for the client that follows the redirect
Download(r) ==
    /\ pc[r] = "Succeeded"
    /\ served[r] = NoServed
    /\ LET filename == redirect[r].filename
           path == os_path_join(OUTPUT_FOLDER, filename)
       IN  served' = [served EXCEPT ![r] =
                IF /\ filename # <<>>
                   /\ filename[1] # "/"
                   /\ \A i \in 1..Len(Components(filename)) :
                          Components(filename)[i] # <<".", ".">>
                   /\ path \in DOMAIN outputs_dir
                THEN [status |-> 200, owner |-> outputs_dir[path]]
                ELSE [status |-> 404, owner |-> 0]]
    /\ UNCHANGED <<pc, uploaded, form, uid, in_name, in_path, video_present,
                   out_filename, out_path, ffmpeg_cmd, flashed, redirect, calls,
                   env, uploads_dir, outputs_dir>>

\* one request, every filename of at most MaxLen tokens
Next ==
    \/ Receive(1, Strings(MaxLen), Forms(FewMetas))
    \/ Store(1)
    \/ Probe(1)
    \/ Build(1)
    \/ Transcode(1)
    \/ Download(1)

Spec == Init /\ [][Next]_vars

\* one request, every combination of the form fields
NextForm ==
    \/ Receive(1, PlainNames, Forms(AllMetas))
    \/ Store(1)
    \/ Probe(1)
    \/ Build(1)
    \/ Transcode(1)
    \/ Download(1)

SpecForm == Init /\ [][NextForm]_vars

\* NumReqs requests, interleaved step by step
NextConc ==
    \E r \in Reqs :
        \/ Receive(r, OneName, {BlankForm})
        \/ Store(r)
        \/ Probe(r)
        \/ Build(r)
        \/ Transcode(r)
        \/ Download(r)

SpecConc == Init /\ [][NextConc]_vars
\* ------------------------------------------------------------- claims
Built(r) == pc[r] \in {"Transcoding", "Succeeded", "Failed"} \/ calls[r].ffmpeg > 0
HasArg(r, a) == \E i \in 1..Len(ffmpeg_cmd[r]) : ffmpeg_cmd[r][i] = a
LastTok(s) == s[Len(s)]

\* C1: the output filename is <stored base>_processed.<ext>, where ext is mp4
\* when the probe found a video stream, otherwise the lowercased original
\* extension if that is one of mp3, wav, aac, m4a, flac, and mp3 otherwise;
\* the form options play no part.
C1_OutputName ==
    \A r \in Reqs :
        Built(r) =>
            LET orig == lower(<<LastTok(uploaded[r].filename)>>)[1]
                ext == IF video_present[r] THEN "mp4"
                       ELSE IF orig \in {"mp3", "wav", "aac", "m4a", "flac"} THEN orig
                       ELSE "mp3"
                base == SubSeq(in_name[r], 1, Len(in_name[r]) - 2)
            IN  out_filename[r] = base \o <<"_processed", ".", ext>>

C1_Witness ==
    \E r \in Reqs :
        /\ Built(r)
        /\ ~video_present[r]
        /\ form[r].overlay_enable
        /\ LastTok(uploaded[r].filename) = "WAV"
        /\ LastTok(out_filename[r]) = "wav"

\* C2: the overlay arguments (-filter_complex with the filter chain, -map 0:v,
\* -map 0:a?) are in the command iff a video stream was found and
\* overlay_enable is on.
C2_OverlayIff ==
    \A r \in Reqs :
        Built(r) =>
            /\ HasArg(r, <<"-filter_complex">>) <=> (video_present[r] /\ form[r].overlay_enable)
            /\ HasArg(r, FILTER_COMPLEX) <=> (video_present[r] /\ form[r].overlay_enable)
            /\ HasArg(r, <<"-map">>) <=> (video_present[r] /\ form[r].overlay_enable)
            /\ HasArg(r, <<"0:v">>) <=> (video_present[r] /\ form[r].overlay_enable)
            /\ HasArg(r, <<"0:a?">>) <=> (video_present[r] /\ form[r].overlay_enable)

C2_Witness ==
    \E r \in Reqs :
        /\ Built(r)
        /\ ~video_present[r]
        /\ form[r].overlay_enable
        /\ ~HasArg(r, <<"-filter_complex">>)

\* C4: a request without a file part, with an empty filename, with a filename
\* without a dot, or whose lowercased suffix after the last dot is not in the
\* allow-list ends with a flashed error and a redirect to the form, and it
\* never saves a file, never probes and never transcodes.
C4_Invalid(u) ==
    \/ ~u.present
    \/ u.filename = <<>>
    \/ \A i \in 1..Len(u.filename) : u.filename[i] # "."
    \/ lower(SubSeq(u.filename, LastIdx(u.filename, ".") + 1, Len(u.filename)))
            \notin {<<"mp4">>, <<"mov">>, <<"mkv">>, <<"webm">>, <<"mp3">>,
                    <<"wav">>, <<"aac">>, <<"m4a">>, <<"flac">>}

C4_RejectedBeforeStorage ==
    \A r \in Reqs :
        (pc[r] # "ReceivingUpload" /\ C4_Invalid(uploaded[r])) =>
            /\ pc[r] = "Rejected"
            /\ flashed[r].text \in {"Please upload a file.", "File type not allowed."}
            /\ redirect[r] = [endpoint |-> "index", filename |-> <<>>]
            /\ calls[r] = [save |-> 0, ffprobe |-> 0, ffmpeg |-> 0]
            /\ \A p \in DOMAIN uploads_dir : uploads_dir[p] # r

C4_Witness ==
    \E r \in Reqs :
        /\ pc[r] = "Rejected"
        /\ uploaded[r].present
        /\ LastIdx(uploaded[r].filename, ".") # 0
        /\ LastTok(uploaded[r].filename) = "x"
\* C3: with metadata_enable on, the command holds exactly one pair
\* -metadata, TAG=value for each tag whose value is non-empty, in the order
\* TITLE, ARTIST, ALBUM, GENRE, YEAR, COMMENT, COPYRIGHT, and no pair for an
\* empty value; with metadata_enable off it holds no pair at all.
C3_PairAt(r, i, t) ==
    /\ i < Len(ffmpeg_cmd[r])
    /\ ffmpeg_cmd[r][i] = <<"-metadata">>
    /\ ffmpeg_cmd[r][i + 1] = <<TAGS[t], "=", form[r].meta[t]>>

C3_MetadataPairs ==
    \A r \in Reqs :
        Built(r) =>
            LET cmd == ffmpeg_cmd[r]
                flags == {i \in 1..Len(cmd) : cmd[i] = <<"-metadata">>}
                wanted == IF form[r].metadata_enable
                          THEN {t \in 1..7 : form[r].meta[t] # ""}
                          ELSE {}
            IN  /\ Cardinality(flags) = Cardinality(wanted)
                /\ \A t \in wanted : \E i \in flags : C3_PairAt(r, i, t)
                /\ \A i \in flags : \E t \in wanted : C3_PairAt(r, i, t)
                /\ \A i, j \in flags, t, u \in wanted :
                        (C3_PairAt(r, i, t) /\ C3_PairAt(r, j, u) /\ t < u) => i < j

C3_Witness ==
    \E r \in Reqs :
        /\ Built(r)
        /\ form[r].metadata_enable
        /\ form[r].meta[1] = "" /\ form[r].meta[2] # "" /\ form[r].meta[7] # ""
        /\ HasArg(r, <<"ARTIST", "=", "Test">>)

\* C9: the command is [ffmpeg, -y, -i, <stored input path>], then the branch
\* arguments, then the metadata pairs, then the output path as last element;
\* the branch arguments are exactly [-c:a, copy] without a video stream and
\* contain [-c:v, libx264, -preset, ultrafast, -c:a, copy] with one.  An
\* audio-only x.WAV with metadata on and only title=Test gives exactly
\* [ffmpeg, -y, -i, <in>, -c:a, copy, -metadata, TITLE=Test, <out>.wav].
C9_Encode ==
    <<<<"-c:v">>, <<"libx264">>, <<"-preset">>, <<"ultrafast">>, <<"-c:a">>, <<"copy">>>>

C7_RoundTrip ==
    \A r \in Reqs :
        pc[r] = "Succeeded" =>
            /\ redirect[r].endpoint = "download_file"
            /\ OUTPUT_FOLDER \o <<"/">> \o redirect[r].filename
                    = ffmpeg_cmd[r][Len(ffmpeg_cmd[r])]
            /\ served[r] # NoServed => served[r] = [status |-> 200, owner |-> r]

C7_Witness ==
    \E r \in Reqs :
        /\ pc[r] = "Succeeded"
        /\ served[r].status = 200
        /\ Len(uploaded[r].filename) >= 3

\* C8: when the transcoder exits non-zero the request ends in Failed: the
\* transcoder ran once, the client is sent to the form and not to /downloads,
\* the flashed message embeds at most the first 1000 characters of the
\* diagnostic, and the stored input is still there.
C8_TranscodeFailure ==
    \A r \in Reqs :
        env[r].run = "nonzero" =>
            /\ pc[r] = "Failed"
            /\ calls[r].ffmpeg = 1
            /\ redirect[r] = [endpoint |-> "index", filename |-> <<>>]
            /\ served[r] = NoServed
            /\ flashed[r].text = "FFmpeg failed"
            /\ flashed[r].diag <= 1000
            /\ flashed[r].diag = IF env[r].diag < 1000 THEN env[r].diag ELSE 1000
            /\ in_path[r] \in DOMAIN uploads_dir
            /\ uploads_dir[in_path[r]] = r

C8_Witness ==
    \E r \in Reqs :
        /\ pc[r] = "Failed"
        /\ env[r].diag > 1000
        /\ flashed[r].diag = 1000
\* C5: the name the upload is stored under and the output filename derived
\* from it hold no path separator and no parent-directory component: for every
\* filename that passes validation the stored-input path is a file directly
\* inside the upload directory and the output path one directly inside the
\* output directory.
C5_PlainName(name) ==
    /\ name # <<>>
    /\ \A i \in 1..Len(name) : name[i] # "/"
    /\ name # <<".", ".">>

C5_NoTraversal ==
    \A r \in Reqs :
        /\ calls[r].save > 0 =>
            /\ C5_PlainName(in_name[r])
            /\ in_path[r] = UPLOAD_FOLDER \o <<"/">> \o in_name[r]
        /\ Built(r) =>
            /\ C5_PlainName(out_filename[r])
            /\ ffmpeg_cmd[r][Len(ffmpeg_cmd[r])] = OUTPUT_FOLDER \o <<"/">> \o out_filename[r]

\* C6: has_video_stream never fails the request: it answers true only when the
\* probing tool exits zero, false on a non-zero exit and false when the tool
\* cannot be run, so every stored request goes on to command building.
C6_ProbeNeverFails ==
    \A r \in Reqs :
        calls[r].ffprobe > 0 =>
            /\ pc[r] = "ServerError" => calls[r].ffmpeg > 0
            /\ video_present[r] => env[r].probe = "exit0"
            /\ env[r].probe = "oserror" => ~video_present[r]

\* the request wrote its upload: save() returned
Stored(r) == pc[r] = "Probing" \/ calls[r].ffprobe > 0
\* the output path the request handed to the transcoder
Target(r) == ffmpeg_cmd[r][Len(ffmpeg_cmd[r])]

\* C10 as stated: no two requests ever write the same stored-input path, and
\* no two ever hand the same output path to the transcoder.
C10_NeverSamePath ==
    \A r1, r2 \in Reqs :
        r1 # r2 =>
            /\ (Stored(r1) /\ Stored(r2)) => in_path[r1] # in_path[r2]
            /\ (calls[r1].ffmpeg > 0 /\ calls[r2].ffmpeg > 0) => Target(r1) # Target(r2)

\* C10 amended: two requests that drew different identifiers never write the
\* same stored-input path and never hand the same output path to the
\* transcoder, even with the same filename and options, and their redirects
\* name different files; the download of a request whose identifier no other
\* request drew is the file that request produced.
C10_DistinctUidDistinctPaths ==
    /\ \A r1, r2 \in Reqs :
        (r1 # r2 /\ uid[r1] # uid[r2]) =>
            /\ (Stored(r1) /\ Stored(r2)) => in_path[r1] # in_path[r2]
            /\ (calls[r1].ffmpeg > 0 /\ calls[r2].ffmpeg > 0) => Target(r1) # Target(r2)
            /\ (pc[r1] = "Succeeded" /\ pc[r2] = "Succeeded") =>
                    redirect[r1].filename # redirect[r2].filename
    /\ \A r1 \in Reqs :
        (served[r1] # NoServed /\ \A r2 \in Reqs \ {r1} : uid[r2] # uid[r1]) =>
            served[r1] = [status |-> 200, owner |-> r1]

C10_Witness ==
    \E r1, r2 \in Reqs :
        /\ r1 # r2
        /\ uid[r1] # uid[r2]
        /\ uploaded[r1] = uploaded[r2]
        /\ video_present[r1] = video_present[r2]
        /\ served[r1].status = 200
        /\ served[r2].status = 200
====
